---- MODULE Spec2Model ----
(***************************************************************************)
(* Model of src/opengl-playground/src/Application.cpp: ParseShader,        *)
(* CompileShader, CreateShader and main, one action per statement or       *)
(* library call.  The windowing layer and the graphics driver are the      *)
(* environment: their return values are nondeterministic choices, and the  *)
(* driver objects the program creates are kept as explicit state.          *)
(***************************************************************************)
EXTENDS Integers, Sequences, FiniteSets, TLC

VARIABLES
    pc,                 \* position of the single thread in the program text
    trace,              \* every library call made so far and ParseShader's return, in program order
    out,                \* what was written to std::cout
    exitCode,           \* exit status of the process, NoExit while it runs or after a crash
    window,             \* main: GLFWwindow* window (0 is NULL)
    glewResult,         \* main: value returned by glewInit()
    closeFlag,          \* windowing layer: close request of the window
    frames,             \* number of completed render-loop iterations
    buffers,            \* driver: buffer name -> [size, data]
    bound,              \* driver: [array, element] currently bound buffer names
    attrib,             \* driver: state of vertex attribute 0
    shaders,            \* driver: shader name -> [stage, source, compiled, deleteCalls, flagged]
    programs,           \* driver: program name -> [attached, linked, validated, deleteCalls]
    currentProgram,     \* driver: program made current by glUseProgram
    glErrors,           \* driver: number of errors raised (GL_INVALID_VALUE ...)
    buffer,             \* main: unsigned int buffer
    indexBufferObject,  \* main: unsigned int indexBufferObject
    source,             \* main: ShaderProgramSource source
    shader,             \* main: unsigned int shader
    program,            \* CreateShader: unsigned int program
    vs,                 \* CreateShader: unsigned int vs
    fs,                 \* CreateShader: unsigned int fs
    stage,              \* CompileShader: parameter type
    shader_id,          \* CompileShader: unsigned int shader_id
    result,             \* CompileShader: int result
    file,               \* ParseShader: the lines std::getline will deliver from stream
    pos,                \* ParseShader: number of lines read so far
    type,               \* ParseShader: ShaderType type
    ss                  \* ParseShader: std::stringstream ss[2]

mainVars  == <<window, glewResult, buffer, indexBufferObject, source, shader>>
envVars   == <<closeFlag, frames>>
glVars    == <<buffers, bound, attrib, shaders, programs, currentProgram, glErrors>>
linkVars  == <<program, vs, fs>>
compVars  == <<stage, shader_id, result>>
parseVars == <<file, pos, type, ss>>
vars == <<pc, trace, out, exitCode, mainVars, envVars, glVars, linkVars, compVars, parseVars>>

----------------------------------------------------------------------------
(* Bounds of the model *)

\* longest shader file, in lines
MaxLines == 4
\* the user closes the window at the latest after this many frames
MaxFrames == 3

----------------------------------------------------------------------------
(* Program constants *)

\* enum class ShaderType
NONE == -1
VERTEX == 0
FRAGMENT == 1

GL_FALSE == 0
GL_TRUE == 1
GLEW_OK == 0
\* sizeof(float) and sizeof(unsigned int) on the platforms GLFW/GLEW build for
SizeofFloat == 4
SizeofUInt == 4
\* exit statuses are one byte wide: return -1 is seen as 255
ExitWidth == 256
\* value of exitCode while main has not returned
NoExit == ExitWidth

\* float positions[] (in tenths) and unsigned int indices[]
positions == <<-5, -5, 5, -5, 5, 5, -5, 5>>
indices == <<0, 1, 2, 2, 3, 0>>

\* the byte counts passed to glBufferData
VertexUploadBytes == 6 * 2 * SizeofFloat
IndexUploadBytes == 6 * SizeofUInt
\* the index count passed to glDrawElements
DrawCount == 6

----------------------------------------------------------------------------
(* Text.  A line is a sequence of lexemes; the lexemes "#shader", "vertex" *)
(* and "fragment" stand for those character strings, NL for '\n'.          *)

NL == "\n"
Lines ==
    { <<"x">>,
      <<"#shader", "vertex">>, <<"#shader", "fragment">>, <<"#shader">>,
      <<"#shader", "vertex", "fragment">>, <<"fragment", "#shader", "vertex">>,
      <<"vertex">> }

RECURSIVE FilesOfLen(_)
FilesOfLen(n) ==
    IF n = 0 THEN { <<>> }
    ELSE { Append(f, l) : f \in FilesOfLen(n - 1), l \in Lines }

\* every content the shader file can have; <<>> is also the file that cannot be opened
Files == UNION { FilesOfLen(n) : n \in 0..MaxLines }

\* std::string::find(pat) != std::string::npos
Find(line, pat) ==
    \E i \in 0..(Len(line) - Len(pat)) : SubSeq(line, i + 1, i + Len(pat)) = pat

\* the two tests of lines 34-37 in the other order
MarkerTarget_FragmentFirst(line, cur) ==
    IF Find(line, <<"fragment">>) THEN FRAGMENT
    ELSE IF Find(line, <<"vertex">>) THEN VERTEX
    ELSE cur

\* the branch of lines 32-38: the value of type after a line containing "#shader"
MarkerTarget(line, cur) ==
    IF Find(line, <<"vertex">>) THEN VERTEX
    ELSE IF Find(line, <<"fragment">>) THEN FRAGMENT
    ELSE cur

\* ss[i] << line << '\n'
StreamAppend(s, line) == s \o line \o <<NL>>

----------------------------------------------------------------------------
(* Library calls are recorded as [call, arg]; arg is the one argument or    *)
(* return value the properties need, 0 otherwise.                           *)

Call(name, arg) == trace' = Append(trace, [call |-> name, arg |-> arg])
Calls(cs) == trace' = trace \o cs

Init ==
    /\ pc = "glfwInit"
    /\ trace = <<>>
    /\ out = <<>>
    /\ exitCode = NoExit
    /\ window = 0
    /\ glewResult = GLEW_OK
    /\ closeFlag = FALSE
    /\ frames = 0
    /\ buffers = <<>>
    /\ bound = [array |-> 0, element |-> 0]
    /\ attrib = [enabled |-> FALSE, size |-> 0, stride |-> 0, offset |-> 0, buffer |-> 0]
    /\ shaders = <<>>
    /\ programs = <<>>
    /\ currentProgram = 0
    /\ glErrors = 0
    /\ buffer = 0
    /\ indexBufferObject = 0
    /\ source = [vertexSource |-> <<>>, fragmentSource |-> <<>>]
    /\ shader = 0
    /\ program = 0
    /\ vs = 0
    /\ fs = 0
    /\ stage = "none"
    /\ shader_id = 0
    /\ result = GL_FALSE
    /\ file = <<>>
    /\ pos = 0
    /\ type = NONE
    /\ ss = [i \in 0..1 |-> <<>>]

\* fresh names handed out by the driver
NewBufferName == Len(buffers) + 1
NewObjectName == Cardinality(DOMAIN shaders \cup DOMAIN programs) + 1

\* return n from main
Return(n) == /\ pc' = "exited"
             /\ exitCode' = n % ExitWidth

----------------------------------------------------------------------------
(* main, lines 107-129: window and context *)

\* if (!glfwInit()) return -1;
GlfwInit ==
    /\ pc = "glfwInit"
    /\ \E ok \in BOOLEAN :
        /\ Call("glfwInit", IF ok THEN GL_TRUE ELSE GL_FALSE)
        /\ IF ok THEN pc' = "glfwCreateWindow" /\ UNCHANGED exitCode
                 ELSE Return(-1)
    /\ UNCHANGED <<out, mainVars, envVars, glVars, linkVars, compVars, parseVars>>

\* window = glfwCreateWindow(...); if (!window) ...
GlfwCreateWindow ==
    /\ pc = "glfwCreateWindow"
    /\ \E w \in 0..1 :
        /\ window' = w
        /\ Call("glfwCreateWindow", w)
        /\ pc' = IF w = 0 THEN "noWindow" ELSE "glfwMakeContextCurrent"
    /\ UNCHANGED <<out, exitCode, glewResult, buffer, indexBufferObject, source, shader,
                   envVars, glVars, linkVars, compVars, parseVars>>

\* { glfwTerminate(); return -1; }
NoWindow ==
    /\ pc = "noWindow"
    /\ Call("glfwTerminate", 0)
    /\ Return(-1)
    /\ UNCHANGED <<out, mainVars, envVars, glVars, linkVars, compVars, parseVars>>

GlfwMakeContextCurrent ==
    /\ pc = "glfwMakeContextCurrent"
    /\ Call("glfwMakeContextCurrent", window)
    /\ pc' = "glewInit"
    /\ UNCHANGED <<out, exitCode, mainVars, envVars, glVars, linkVars, compVars, parseVars>>

\* if (glewInit() != GLEW_OK) std::cout << "ERROR" << std::endl;
GlewInit ==
    /\ pc = "glewInit"
    /\ \E r \in {GLEW_OK, GLEW_OK + 1} :
        /\ glewResult' = r
        /\ Call("glewInit", r)
        /\ out' = IF r # GLEW_OK THEN Append(out, "ERROR") ELSE out
    /\ pc' = "glGetString"
    /\ UNCHANGED <<exitCode, window, buffer, indexBufferObject, source, shader,
                   envVars, glVars, linkVars, compVars, parseVars>>

\* std::cout << glGetString(GL_VERSION) << std::endl;
GlGetString ==
    /\ pc = "glGetString"
    /\ Call("glGetString", 0)
    /\ out' = Append(out, "GL_VERSION")
    /\ pc' = "glGenBuffers_vb"
    /\ UNCHANGED <<exitCode, mainVars, envVars, glVars, linkVars, compVars, parseVars>>

----------------------------------------------------------------------------
(* main, lines 131-175: vertex buffer and index buffer *)

\* glGenBuffers(1, &buffer);
GenVertexBuffer ==
    /\ pc = "glGenBuffers_vb"
    /\ buffer' = NewBufferName
    /\ buffers' = Append(buffers, [size |-> 0, data |-> <<>>])
    /\ Call("glGenBuffers", NewBufferName)
    /\ pc' = "glBindBuffer_vb"
    /\ UNCHANGED <<out, exitCode, window, glewResult, indexBufferObject, source, shader,
                   envVars, bound, attrib, shaders, programs, currentProgram, glErrors,
                   linkVars, compVars, parseVars>>

\* glBindBuffer(GL_ARRAY_BUFFER, buffer);
BindVertexBuffer ==
    /\ pc = "glBindBuffer_vb"
    /\ bound' = [bound EXCEPT !.array = buffer]
    /\ Call("glBindBuffer/ARRAY", buffer)
    /\ pc' = "glBufferData_vb"
    /\ UNCHANGED <<out, exitCode, mainVars, envVars, buffers, attrib, shaders, programs,
                   currentProgram, glErrors, linkVars, compVars, parseVars>>

\* What the driver copies when told to read nbytes from an array of words:
\* the array itself, and for a count past its end the memory behind it,
\* whose content the program does not determine.
ReadWords(arr, wordSize, nbytes, junk) ==
    [i \in 1..(nbytes \div wordSize) |-> IF i <= Len(arr) THEN arr[i] ELSE junk]

\* glBufferData(GL_ARRAY_BUFFER, 6 * 2 * sizeof(float), positions, GL_STATIC_DRAW);
VertexBufferData ==
    /\ pc = "glBufferData_vb"
    /\ \E junk \in (IF VertexUploadBytes > Len(positions) * SizeofFloat THEN {0, 99} ELSE {0}) :
        buffers' = [buffers EXCEPT ![bound.array] =
                       [size |-> VertexUploadBytes,
                        data |-> ReadWords(positions, SizeofFloat, VertexUploadBytes, junk)]]
    /\ Call("glBufferData/ARRAY", VertexUploadBytes)
    /\ pc' = "glEnableVertexAttribArray"
    /\ UNCHANGED <<out, exitCode, mainVars, envVars, bound, attrib, shaders, programs,
                   currentProgram, glErrors, linkVars, compVars, parseVars>>

\* glEnableVertexAttribArray(0);
EnableVertexAttribArray ==
    /\ pc = "glEnableVertexAttribArray"
    /\ attrib' = [attrib EXCEPT !.enabled = TRUE]
    /\ Call("glEnableVertexAttribArray", 0)
    /\ pc' = "glVertexAttribPointer"
    /\ UNCHANGED <<out, exitCode, mainVars, envVars, buffers, bound, shaders, programs,
                   currentProgram, glErrors, linkVars, compVars, parseVars>>

\* glVertexAttribPointer(0, 2, GL_FLOAT, GL_FALSE, sizeof(float) * 2, 0);
VertexAttribPointer ==
    /\ pc = "glVertexAttribPointer"
    /\ attrib' = [attrib EXCEPT !.size = 2, !.stride = SizeofFloat * 2, !.offset = 0,
                                !.buffer = bound.array]
    /\ Call("glVertexAttribPointer", 2)
    /\ pc' = "glGenBuffers_ib"
    /\ UNCHANGED <<out, exitCode, mainVars, envVars, buffers, bound, shaders, programs,
                   currentProgram, glErrors, linkVars, compVars, parseVars>>

\* glGenBuffers(1, &indexBufferObject);
GenIndexBuffer ==
    /\ pc = "glGenBuffers_ib"
    /\ indexBufferObject' = NewBufferName
    /\ buffers' = Append(buffers, [size |-> 0, data |-> <<>>])
    /\ Call("glGenBuffers", NewBufferName)
    /\ pc' = "glBindBuffer_ib"
    /\ UNCHANGED <<out, exitCode, window, glewResult, buffer, source, shader,
                   envVars, bound, attrib, shaders, programs, currentProgram, glErrors,
                   linkVars, compVars, parseVars>>

\* the index buffer bound but its upload of line 175 left out
BindIndexBuffer_NoUpload ==
    /\ pc = "glBindBuffer_ib"
    /\ bound' = [bound EXCEPT !.element = indexBufferObject]
    /\ Call("glBindBuffer/ELEMENT", indexBufferObject)
    /\ pc' = "ParseShader"
    /\ UNCHANGED <<out, exitCode, mainVars, envVars, buffers, attrib, shaders, programs,
                   currentProgram, glErrors, linkVars, compVars, parseVars>>

\* glBindBuffer(GL_ELEMENT_ARRAY_BUFFER, indexBufferObject);
BindIndexBuffer ==
    /\ pc = "glBindBuffer_ib"
    /\ bound' = [bound EXCEPT !.element = indexBufferObject]
    /\ Call("glBindBuffer/ELEMENT", indexBufferObject)
    /\ pc' = "glBufferData_ib"
    /\ UNCHANGED <<out, exitCode, mainVars, envVars, buffers, attrib, shaders, programs,
                   currentProgram, glErrors, linkVars, compVars, parseVars>>

\* glBufferData(GL_ELEMENT_ARRAY_BUFFER, 6 * sizeof(unsigned int), indices, GL_STATIC_DRAW);
IndexBufferData ==
    /\ pc = "glBufferData_ib"
    /\ \E junk \in (IF IndexUploadBytes > Len(indices) * SizeofUInt THEN {0, 99} ELSE {0}) :
        buffers' = [buffers EXCEPT ![bound.element] =
                       [size |-> IndexUploadBytes,
                        data |-> ReadWords(indices, SizeofUInt, IndexUploadBytes, junk)]]
    /\ Call("glBufferData/ELEMENT", IndexUploadBytes)
    /\ pc' = "ParseShader"
    /\ UNCHANGED <<out, exitCode, mainVars, envVars, bound, attrib, shaders, programs,
                   currentProgram, glErrors, linkVars, compVars, parseVars>>

----------------------------------------------------------------------------
(* ParseShader, lines 15-48 *)

ShaderTypes == {NONE, VERTEX, FRAGMENT}
EmptyStreams == [i \in 0..1 |-> <<>>]

\* std::ifstream stream(filepath); ... ShaderType type = ShaderType::NONE;
ParseOpen ==
    /\ pc = "ParseShader"
    /\ \E f \in Files : file' = f
    /\ pos' = 0
    /\ type' = NONE
    /\ ss' = EmptyStreams
    /\ pc' = "getline"
    /\ UNCHANGED <<trace, out, exitCode, mainVars, envVars, glVars, linkVars, compVars>>

\* the line std::getline delivers next
NextLine == file[pos + 1]

\* getline delivered a line containing "#shader": lines 32-38
ReadMarkerLine ==
    /\ pc = "getline"
    /\ pos < Len(file)
    /\ Find(NextLine, <<"#shader">>)
    /\ pos' = pos + 1
    /\ type' = MarkerTarget(NextLine, type)
    /\ UNCHANGED <<pc, file, ss>>
    /\ UNCHANGED <<trace, out, exitCode, mainVars, envVars, glVars, linkVars, compVars>>

\* getline delivered another line and (int)type indexes ss: line 42
ReadBodyLine ==
    /\ pc = "getline"
    /\ pos < Len(file)
    /\ ~Find(NextLine, <<"#shader">>)
    /\ type \in DOMAIN ss
    /\ pos' = pos + 1
    /\ ss' = [ss EXCEPT ![type] = StreamAppend(@, NextLine)]
    /\ UNCHANGED <<pc, file, type>>
    /\ UNCHANGED <<trace, out, exitCode, mainVars, envVars, glVars, linkVars, compVars>>

\* getline delivered another line while type is NONE: line 42 evaluates ss[-1],
\* one stringstream before the array.  The behaviour is undefined; what a build
\* does is one of: the write lands in memory nothing reads again, the process
\* is killed, or the neighbouring local `type` is overwritten.
ReadLineOutOfBounds ==
    /\ pc = "getline"
    /\ pos < Len(file)
    /\ ~Find(NextLine, <<"#shader">>)
    /\ type \notin DOMAIN ss
    /\ pos' = pos + 1
    /\ \/ UNCHANGED <<pc, type>>
       \/ pc' = "crashed" /\ UNCHANGED type
       \/ \E t \in ShaderTypes \ {type} : type' = t /\ UNCHANGED pc
    /\ UNCHANGED <<file, ss>>
    /\ UNCHANGED <<trace, out, exitCode, mainVars, envVars, glVars, linkVars, compVars>>

\* getline fails at the end of the file (or on a file that was not opened)
EndOfFile ==
    /\ pc = "getline"
    /\ pos = Len(file)
    /\ pc' = "ParseReturn"
    /\ UNCHANGED <<trace, out, exitCode, mainVars, envVars, glVars, linkVars, compVars, parseVars>>

\* return { ss[0].str(), ss[1].str() };  the locals are destroyed
ParseReturn ==
    /\ pc = "ParseReturn"
    /\ source' = [vertexSource |-> ss[0], fragmentSource |-> ss[1]]
    /\ file' = <<>>
    /\ pos' = 0
    /\ type' = NONE
    /\ ss' = EmptyStreams
    /\ Call("ParseShader", 0)
    /\ pc' = "glCreateProgram"
    /\ UNCHANGED <<out, exitCode, window, glewResult, buffer, indexBufferObject, shader,
                   envVars, glVars, linkVars, compVars>>

----------------------------------------------------------------------------
(* The driver's shader and program objects *)

\* a shader object exists until glDeleteShader was called on it and no program holds it
Attached(id) == \E n \in DOMAIN programs : id \in programs[n].attached
IsShader(id) == id \in DOMAIN shaders /\ ~(shaders[id].flagged /\ ~Attached(id))

\* glDeleteShader(id): 0 is silently ignored, a name that is no shader object is an
\* error, a shader object is deleted (at once, or when it is detached)
DeleteShader(id) ==
    IF id = 0 THEN UNCHANGED <<shaders, glErrors>>
    ELSE IF ~IsShader(id)
         THEN /\ glErrors' = glErrors + 1
              /\ shaders' = IF id \in DOMAIN shaders
                            THEN [shaders EXCEPT ![id].deleteCalls = @ + 1]
                            ELSE shaders
         ELSE /\ shaders' = [shaders EXCEPT ![id].deleteCalls = @ + 1, ![id].flagged = TRUE]
              /\ UNCHANGED glErrors

\* glAttachShader(prog, id): a name that is no shader object is an error
AttachShader(prog, id) ==
    IF IsShader(id) /\ prog \in DOMAIN programs
    THEN programs' = [programs EXCEPT ![prog].attached = @ \cup {id}] /\ UNCHANGED glErrors
    ELSE glErrors' = glErrors + 1 /\ UNCHANGED programs

\* a program can link only with a compiled shader of each stage attached
Linkable(prog) ==
    \A st \in {"vertex", "fragment"} :
        \E id \in programs[prog].attached : shaders[id].stage = st /\ shaders[id].compiled

----------------------------------------------------------------------------
(* CompileShader, lines 50-88; stage is its parameter type *)

StageSource == IF stage = "vertex" THEN source.vertexSource ELSE source.fragmentSource

\* unsigned int shader_id = glCreateShader(type);
GlCreateShader ==
    /\ pc = "glCreateShader"
    /\ shader_id' = NewObjectName
    /\ shaders' = shaders @@ (NewObjectName :>
                     [stage |-> stage, source |-> <<>>, compiled |-> FALSE,
                      deleteCalls |-> 0, flagged |-> FALSE])
    /\ Call("glCreateShader", NewObjectName)
    /\ pc' = "glShaderSource"
    /\ UNCHANGED <<out, exitCode, mainVars, envVars, buffers, bound, attrib, programs,
                   currentProgram, glErrors, linkVars, stage, result, parseVars>>

\* glShaderSource(shader_id, 1, &src, nullptr);
GlShaderSource ==
    /\ pc = "glShaderSource"
    /\ shaders' = [shaders EXCEPT ![shader_id].source = StageSource]
    /\ Call("glShaderSource", shader_id)
    /\ pc' = "glCompileShader"
    /\ UNCHANGED <<out, exitCode, mainVars, envVars, buffers, bound, attrib, programs,
                   currentProgram, glErrors, linkVars, compVars, parseVars>>

\* glCompileShader(shader_id); whether the text compiles is the driver's verdict
GlCompileShader ==
    /\ pc = "glCompileShader"
    /\ \E ok \in BOOLEAN : shaders' = [shaders EXCEPT ![shader_id].compiled = ok]
    /\ Call("glCompileShader", shader_id)
    /\ pc' = "glGetShaderiv"
    /\ UNCHANGED <<out, exitCode, mainVars, envVars, buffers, bound, attrib, programs,
                   currentProgram, glErrors, linkVars, compVars, parseVars>>

\* glGetShaderiv(shader_id, GL_COMPILE_STATUS, &result); if (result == GL_FALSE) ...
GlGetCompileStatus ==
    /\ pc = "glGetShaderiv"
    /\ result' = IF shaders[shader_id].compiled THEN GL_TRUE ELSE GL_FALSE
    /\ Call("glGetShaderiv/COMPILE_STATUS", shader_id)
    /\ pc' = IF result' = GL_FALSE THEN "compileFailed" ELSE "compileReturn"
    /\ UNCHANGED <<out, exitCode, mainVars, envVars, glVars, linkVars, stage, shader_id, parseVars>>

\* lines 72-81: fetch the information log and print it
ReportCompileFailure ==
    /\ pc = "compileFailed"
    /\ Calls(<<[call |-> "glGetShaderiv/INFO_LOG_LENGTH", arg |-> shader_id],
               [call |-> "glGetShaderInfoLog", arg |-> shader_id]>>)
    /\ out' = out \o <<"Failed to compile", stage, "shader!", "<info log>">>
    /\ pc' = "glDeleteShader_failed"
    /\ UNCHANGED <<exitCode, mainVars, envVars, glVars, linkVars, compVars, parseVars>>

\* control returns into CreateShader, lines 93-94, with value v
CompileReturns(v) ==
    IF stage = "vertex"
    THEN vs' = v /\ stage' = "fragment" /\ pc' = "glCreateShader" /\ UNCHANGED <<program, fs>>
    ELSE fs' = v /\ pc' = "glAttachShader_vs" /\ UNCHANGED <<program, vs, stage>>

\* the failed compile ends the program instead of returning 0
DeleteFailedShader_HardStop ==
    /\ pc = "glDeleteShader_failed"
    /\ DeleteShader(shader_id)
    /\ Call("glDeleteShader", shader_id)
    /\ Return(-1)
    /\ UNCHANGED <<out, mainVars, envVars, buffers, bound, attrib, programs,
                   currentProgram, linkVars, compVars, parseVars>>

\* the failed compile returns the deleted name instead of 0
DeleteFailedShader_ReturnsId ==
    /\ pc = "glDeleteShader_failed"
    /\ DeleteShader(shader_id)
    /\ Call("glDeleteShader", shader_id)
    /\ CompileReturns(shader_id)
    /\ UNCHANGED <<out, exitCode, mainVars, envVars, buffers, bound, attrib, programs,
                   currentProgram, shader_id, result, parseVars>>

\* glDeleteShader(shader_id); return 0;
DeleteFailedShader ==
    /\ pc = "glDeleteShader_failed"
    /\ DeleteShader(shader_id)
    /\ Call("glDeleteShader", shader_id)
    /\ CompileReturns(0)
    /\ UNCHANGED <<out, exitCode, mainVars, envVars, buffers, bound, attrib, programs,
                   currentProgram, shader_id, result, parseVars>>

\* return shader_id;
CompileReturn ==
    /\ pc = "compileReturn"
    /\ CompileReturns(shader_id)
    /\ UNCHANGED <<trace, out, exitCode, mainVars, envVars, glVars, shader_id, result, parseVars>>

----------------------------------------------------------------------------
(* CreateShader, lines 90-105 *)

\* unsigned int program = glCreateProgram(); then the call of line 93
GlCreateProgram ==
    /\ pc = "glCreateProgram"
    /\ program' = NewObjectName
    /\ programs' = programs @@ (NewObjectName :>
                      [attached |-> {}, linked |-> FALSE, validated |-> FALSE, deleteCalls |-> 0])
    /\ Call("glCreateProgram", NewObjectName)
    /\ stage' = "vertex"
    /\ pc' = "glCreateShader"
    /\ UNCHANGED <<out, exitCode, mainVars, envVars, buffers, bound, attrib, shaders,
                   currentProgram, glErrors, vs, fs, shader_id, result, parseVars>>

\* glAttachShader(program, vs);
AttachVertex ==
    /\ pc = "glAttachShader_vs"
    /\ AttachShader(program, vs)
    /\ Call("glAttachShader", vs)
    /\ pc' = "glAttachShader_fs"
    /\ UNCHANGED <<out, exitCode, mainVars, envVars, buffers, bound, attrib, shaders,
                   currentProgram, linkVars, compVars, parseVars>>

\* glAttachShader(program, fs);
AttachFragment ==
    /\ pc = "glAttachShader_fs"
    /\ AttachShader(program, fs)
    /\ Call("glAttachShader", fs)
    /\ pc' = "glLinkProgram"
    /\ UNCHANGED <<out, exitCode, mainVars, envVars, buffers, bound, attrib, shaders,
                   currentProgram, linkVars, compVars, parseVars>>

\* glLinkProgram(program);
GlLinkProgram ==
    /\ pc = "glLinkProgram"
    /\ \E ok \in (IF Linkable(program) THEN BOOLEAN ELSE {FALSE}) :
        programs' = [programs EXCEPT ![program].linked = ok]
    /\ Call("glLinkProgram", program)
    /\ pc' = "glValidateProgram"
    /\ UNCHANGED <<out, exitCode, mainVars, envVars, buffers, bound, attrib, shaders,
                   currentProgram, glErrors, linkVars, compVars, parseVars>>

\* glValidateProgram(program);
GlValidateProgram ==
    /\ pc = "glValidateProgram"
    /\ programs' = [programs EXCEPT ![program].validated = programs[program].linked]
    /\ Call("glValidateProgram", program)
    /\ pc' = "glDeleteShader_vs"
    /\ UNCHANGED <<out, exitCode, mainVars, envVars, buffers, bound, attrib, shaders,
                   currentProgram, glErrors, linkVars, compVars, parseVars>>

\* glDeleteShader(vs);
DeleteVertex ==
    /\ pc = "glDeleteShader_vs"
    /\ DeleteShader(vs)
    /\ Call("glDeleteShader", vs)
    /\ pc' = "glDeleteShader_fs"
    /\ UNCHANGED <<out, exitCode, mainVars, envVars, buffers, bound, attrib, programs,
                   currentProgram, linkVars, compVars, parseVars>>

\* glDeleteShader(fs);
DeleteFragment ==
    /\ pc = "glDeleteShader_fs"
    /\ DeleteShader(fs)
    /\ Call("glDeleteShader", fs)
    /\ pc' = "createReturn"
    /\ UNCHANGED <<out, exitCode, mainVars, envVars, buffers, bound, attrib, programs,
                   currentProgram, linkVars, compVars, parseVars>>

\* return program;  and line 181: unsigned int shader = CreateShader(...)
CreateReturn ==
    /\ pc = "createReturn"
    /\ shader' = program
    /\ pc' = "glUseProgram"
    /\ UNCHANGED <<trace, out, exitCode, window, glewResult, buffer, indexBufferObject, source,
                   envVars, glVars, linkVars, compVars, parseVars>>

----------------------------------------------------------------------------
(* main, lines 183-207: render loop and shutdown *)

\* glUseProgram(shader); a program that did not link is refused by the driver
GlUseProgram ==
    /\ pc = "glUseProgram"
    /\ IF shader \in DOMAIN programs /\ programs[shader].linked
       THEN currentProgram' = shader /\ UNCHANGED glErrors
       ELSE glErrors' = glErrors + 1 /\ UNCHANGED currentProgram
    /\ Call("glUseProgram", shader)
    /\ pc' = "glfwWindowShouldClose"
    /\ UNCHANGED <<out, exitCode, mainVars, envVars, buffers, bound, attrib, shaders, programs,
                   linkVars, compVars, parseVars>>

\* the loop condition without its negation
WindowShouldClose_Inverted ==
    /\ pc = "glfwWindowShouldClose"
    /\ Call("glfwWindowShouldClose", IF closeFlag THEN GL_TRUE ELSE GL_FALSE)
    /\ pc' = IF closeFlag THEN "glClear" ELSE "glDeleteProgram"
    /\ UNCHANGED <<out, exitCode, mainVars, envVars, glVars, linkVars, compVars, parseVars>>

\* while (!glfwWindowShouldClose(window))
WindowShouldClose ==
    /\ pc = "glfwWindowShouldClose"
    /\ Call("glfwWindowShouldClose", IF closeFlag THEN GL_TRUE ELSE GL_FALSE)
    /\ pc' = IF closeFlag THEN "glDeleteProgram" ELSE "glClear"
    /\ UNCHANGED <<out, exitCode, mainVars, envVars, glVars, linkVars, compVars, parseVars>>

\* glClear(GL_COLOR_BUFFER_BIT);
GlClear ==
    /\ pc = "glClear"
    /\ Call("glClear", 0)
    /\ pc' = "glDrawElements"
    /\ UNCHANGED <<out, exitCode, mainVars, envVars, glVars, linkVars, compVars, parseVars>>

\* glDrawElements(GL_TRIANGLES, 6, GL_UNSIGNED_INT, nullptr);
GlDrawElements ==
    /\ pc = "glDrawElements"
    /\ Call("glDrawElements", DrawCount)
    /\ pc' = "glfwSwapBuffers"
    /\ UNCHANGED <<out, exitCode, mainVars, envVars, glVars, linkVars, compVars, parseVars>>

\* glfwSwapBuffers(window);
GlfwSwapBuffers ==
    /\ pc = "glfwSwapBuffers"
    /\ Call("glfwSwapBuffers", window)
    /\ pc' = "glfwPollEvents"
    /\ UNCHANGED <<out, exitCode, mainVars, envVars, glVars, linkVars, compVars, parseVars>>

\* glfwPollEvents(); the only place where the windowing layer records a close request
GlfwPollEvents ==
    /\ pc = "glfwPollEvents"
    /\ \E c \in (IF frames + 1 >= MaxFrames THEN {TRUE} ELSE BOOLEAN) : closeFlag' = c
    /\ frames' = frames + 1
    /\ Call("glfwPollEvents", 0)
    /\ pc' = "glfwWindowShouldClose"
    /\ UNCHANGED <<out, exitCode, mainVars, glVars, linkVars, compVars, parseVars>>

\* the clean-up of line 204 left out
GlDeleteProgram_Forgotten ==
    /\ pc = "glDeleteProgram"
    /\ pc' = "glfwTerminate"
    /\ UNCHANGED <<trace, out, exitCode, mainVars, envVars, glVars, linkVars, compVars, parseVars>>

\* glDeleteProgram(shader);
GlDeleteProgram ==
    /\ pc = "glDeleteProgram"
    /\ programs' = [programs EXCEPT ![shader].deleteCalls = @ + 1]
    /\ Call("glDeleteProgram", shader)
    /\ pc' = "glfwTerminate"
    /\ UNCHANGED <<out, exitCode, mainVars, envVars, buffers, bound, attrib, shaders,
                   currentProgram, glErrors, linkVars, compVars, parseVars>>

\* glfwTerminate(); return 0;
GlfwTerminate ==
    /\ pc = "glfwTerminate"
    /\ Call("glfwTerminate", 0)
    /\ Return(0)
    /\ UNCHANGED <<out, mainVars, envVars, glVars, linkVars, compVars, parseVars>>

----------------------------------------------------------------------------

Next ==
    \/ GlfwInit \/ GlfwCreateWindow \/ NoWindow \/ GlfwMakeContextCurrent
    \/ GlewInit \/ GlGetString
    \/ GenVertexBuffer \/ BindVertexBuffer \/ VertexBufferData
    \/ EnableVertexAttribArray \/ VertexAttribPointer
    \/ GenIndexBuffer \/ BindIndexBuffer \/ IndexBufferData
    \/ ParseOpen \/ ReadMarkerLine \/ ReadBodyLine \/ ReadLineOutOfBounds
    \/ EndOfFile \/ ParseReturn
    \/ GlCreateProgram \/ GlCreateShader \/ GlShaderSource \/ GlCompileShader
    \/ GlGetCompileStatus \/ ReportCompileFailure \/ DeleteFailedShader \/ CompileReturn
    \/ AttachVertex \/ AttachFragment \/ GlLinkProgram \/ GlValidateProgram
    \/ DeleteVertex \/ DeleteFragment \/ CreateReturn
    \/ GlUseProgram \/ WindowShouldClose \/ GlClear \/ GlDrawElements
    \/ GlfwSwapBuffers \/ GlfwPollEvents \/ GlDeleteProgram \/ GlfwTerminate

Spec == Init /\ [][Next]_vars

----------------------------------------------------------------------------
(* Reading the call history *)

At(name) == { i \in DOMAIN trace : trace[i].call = name }
AtArg(name, arg) == { i \in DOMAIN trace : trace[i].call = name /\ trace[i].arg = arg }
Has(name) == At(name) # {}
Before(S, T) == \A i \in S, j \in T : i < j
PrevCall(i) == IF i > 1 THEN trace[i - 1].call ELSE "(start)"

----------------------------------------------------------------------------
(* ParseShader: what the file format promises, stated on the file alone *)

IsMarker(l) == Find(l, <<"#shader">>)
IsVertexMarker(l) == IsMarker(l) /\ Find(l, <<"vertex">>) /\ ~Find(l, <<"fragment">>)
IsFragmentMarker(l) == IsMarker(l) /\ Find(l, <<"fragment">>) /\ ~Find(l, <<"vertex">>)
VertexMarkers(f) == { i \in DOMAIN f : IsVertexMarker(f[i]) }
FragmentMarkers(f) == { i \in DOMAIN f : IsFragmentMarker(f[i]) }

\* one vertex marker line, one fragment marker line, and no other marker line
OneOfEach(f) ==
    /\ Cardinality(VertexMarkers(f)) = 1
    /\ Cardinality(FragmentMarkers(f)) = 1
    /\ \A i \in DOMAIN f : IsMarker(f[i]) => IsVertexMarker(f[i]) \/ IsFragmentMarker(f[i])

RECURSIVE Body(_, _)
\* the lines of f from line i on, up to the next marker line or the end, each with its terminator
Body(f, i) ==
    IF i > Len(f) \/ IsMarker(f[i]) THEN <<>>
    ELSE f[i] \o <<NL>> \o Body(f, i + 1)

SectionOf(f, markers) == Body(f, (CHOOSE i \in markers : TRUE) + 1)

\* C1: for every file with exactly one vertex marker line and one fragment marker
\* line, in either order, ParseShader returns as vertexSource the lines after the
\* vertex marker up to the next marker or the end of the file, each followed by a
\* line terminator, and as fragmentSource the same for the fragment marker.
C1_SectionsReturned ==
    (pc \in {"ParseReturn", "crashed"} /\ OneOfEach(file))
        => /\ pc = "ParseReturn"
           /\ ss[0] = SectionOf(file, VertexMarkers(file))
           /\ ss[1] = SectionOf(file, FragmentMarkers(file))

\* C2: a non-marker line read while the target is still NONE is dropped: neither
\* block receives it and no other state changes; for a file without marker lines
\* both returned sections are empty.
C2_PreambleDropped ==
    [][ /\ (pc = "getline" /\ pos < Len(file) /\ type = NONE /\ ~IsMarker(file[pos + 1]))
            => (pc' = "getline" /\ pos' = pos + 1 /\ ss' = ss /\ type' = type
                /\ file' = file /\ source' = source)
        /\ (pc = "ParseReturn" /\ \A i \in DOMAIN file : ~IsMarker(file[i]))
            => (source'.vertexSource = <<>> /\ source'.fragmentSource = <<>>)
      ]_vars

\* C7: a line containing "#shader" is never copied into either output, and it
\* switches the current target by the keyword on that line; with both keywords
\* on the line the target becomes VERTEX.
C7_MarkerLines ==
    /\ [][ (pc = "getline" /\ pos < Len(file) /\ IsMarker(file[pos + 1]))
            => /\ ss' = ss
               /\ source' = source
               /\ Find(file[pos + 1], <<"vertex">>) => type' = VERTEX
               /\ (Find(file[pos + 1], <<"fragment">>) /\ ~Find(file[pos + 1], <<"vertex">>))
                      => type' = FRAGMENT
         ]_vars
    /\ [](\A t \in {ss[0], ss[1], source.vertexSource, source.fragmentSource} :
            \A i \in DOMAIN t : t[i] # "#shader")

\* a line with both keywords, the fragment keyword first, was read in the fragment section
C7_Witness ==
    /\ pc = "getline"
    /\ pos = 3
    /\ file[1] = <<"#shader", "fragment">>
    /\ file[2] = <<"x">>
    /\ file[3] = <<"fragment", "#shader", "vertex">>
    /\ type = VERTEX
    /\ ss[FRAGMENT] = <<"x", NL>>
    /\ ss[VERTEX] = <<>>

----------------------------------------------------------------------------
(* main: exit status, geometry upload, render loop *)

InitFailed ==
    \/ AtArg("glfwInit", GL_FALSE) # {}
    \/ AtArg("glfwCreateWindow", 0) # {}
    \/ glewResult # GLEW_OK

\* C3: the process exits with 0 when the render loop ended because the window
\* was closed, and with a nonzero status whenever glfwInit fails, glfwCreateWindow
\* returns null or glewInit does not return GLEW_OK.
C3_ExitCodes ==
    pc = "exited" => IF InitFailed THEN exitCode # 0 ELSE exitCode = 0

\* C9: the byte count of the vertex-buffer upload is the size of positions
\* (4 vertices of 2 floats), the byte count of the index-buffer upload is the
\* size of the 6-element indices array.
C9_UploadSizes ==
    \A i \in DOMAIN trace :
        /\ trace[i].call = "glBufferData/ARRAY" => trace[i].arg = 4 * 2 * SizeofFloat
        /\ trace[i].call = "glBufferData/ARRAY" => trace[i].arg = Len(positions) * SizeofFloat
        /\ trace[i].call = "glBufferData/ELEMENT" => trace[i].arg = Len(indices) * SizeofUInt

TestCall(closed) ==
    [call |-> "glfwWindowShouldClose", arg |-> IF closed THEN GL_TRUE ELSE GL_FALSE]
FrameCalls == {"glClear", "glDrawElements", "glfwSwapBuffers", "glfwPollEvents"}

\* C4: the close request is tested before every iteration; an iteration is
\* exactly clear, one indexed draw of 6 indices, swap, poll, in that order; once
\* the test reports a close request no clear, draw, swap or poll follows.
C4_RenderLoop ==
    \A i \in DOMAIN trace :
        LET c == trace[i].call IN
        /\ c = "glClear" => i > 1 /\ trace[i - 1] = TestCall(FALSE)
        /\ c = "glDrawElements" => PrevCall(i) = "glClear" /\ trace[i].arg = 6
        /\ c = "glfwSwapBuffers" => PrevCall(i) = "glDrawElements"
        /\ c = "glfwPollEvents" => PrevCall(i) = "glfwSwapBuffers"
        /\ c = "glfwWindowShouldClose" => PrevCall(i) \in {"glUseProgram", "glfwPollEvents"}
        /\ i < Len(trace) =>
            /\ trace[i] = TestCall(FALSE) => trace[i + 1].call = "glClear"
            /\ c = "glClear" => trace[i + 1].call = "glDrawElements"
            /\ c = "glDrawElements" => trace[i + 1].call = "glfwSwapBuffers"
            /\ c = "glfwSwapBuffers" => trace[i + 1].call = "glfwPollEvents"
            /\ c = "glfwPollEvents" => trace[i + 1].call = "glfwWindowShouldClose"
        /\ trace[i] = TestCall(TRUE) =>
            \A j \in DOMAIN trace :
                j > i => trace[j].call \notin FrameCalls \cup {"glfwWindowShouldClose"}

\* two whole iterations ran, the third test saw the close request, main returned
C4_Witness ==
    /\ pc = "exited"
    /\ frames = 2
    /\ Cardinality(At("glDrawElements")) = 2
    /\ Cardinality(AtArg("glfwWindowShouldClose", GL_TRUE)) = 1

LoopPcs == {"glfwWindowShouldClose", "glClear", "glDrawElements", "glfwSwapBuffers",
            "glfwPollEvents"}
CreateCalls == {"glGenBuffers", "glCreateShader", "glCreateProgram"}
Tests == At("glfwWindowShouldClose")

\* C6: no buffer, stage object or program object is created or destroyed during
\* a render-loop iteration: the program object and both buffers are created
\* exactly once before the first iteration, and the program object is deleted
\* exactly once, after the loop ended and before glfwTerminate.
C6_Lifetimes ==
    /\ \A i \in DOMAIN trace :
        /\ trace[i].call \in CreateCalls \cup {"glDeleteShader"} => \A t \in Tests : i < t
        /\ trace[i].call = "glDeleteProgram" =>
            /\ \A t \in Tests : t < i
            /\ trace[i - 1] = TestCall(TRUE)
            /\ trace[i].arg = shader
        /\ (trace[i].call = "glfwTerminate" /\ Tests # {}) => At("glDeleteProgram") = {i - 1}
    /\ Tests # {} =>
        /\ Cardinality(At("glCreateProgram")) = 1
        /\ Cardinality(At("glGenBuffers")) = 2
        /\ DOMAIN buffers = {buffer, indexBufferObject}
        /\ buffer # indexBufferObject
        /\ DOMAIN programs = {shader}
    /\ pc \in LoopPcs => programs[shader].deleteCalls = 0
    /\ (pc = "exited" /\ Tests # {}) => programs[shader].deleteCalls = 1

\* the loop ran and ended, the program object was deleted, the library terminated
C6_Witness ==
    /\ pc = "exited"
    /\ exitCode = 0
    /\ frames >= 1
    /\ programs[shader].deleteCalls = 1
    /\ trace[Len(trace)].call = "glfwTerminate"

Ordered(seq) == \A k \in 1..(Len(seq) - 1) : Before(seq[k], seq[k + 1])
One(S) == Cardinality(S) = 1

\* C8: the first draw call comes after the vertex buffer was created, bound,
\* uploaded and its attribute layout described (in that order), the index buffer
\* was created, bound and uploaded (in that order), and the shader file was
\* split, both stages compiled, the program linked and made current.
C8_SetupBeforeDraw ==
    Has("glDrawElements") =>
        /\ One(AtArg("glGenBuffers", buffer)) /\ One(AtArg("glBindBuffer/ARRAY", buffer))
        /\ One(At("glBufferData/ARRAY")) /\ One(At("glVertexAttribPointer"))
        /\ Ordered(<<AtArg("glGenBuffers", buffer), AtArg("glBindBuffer/ARRAY", buffer),
                     At("glBufferData/ARRAY"), At("glVertexAttribPointer"),
                     At("glDrawElements")>>)
        /\ One(AtArg("glGenBuffers", indexBufferObject))
        /\ One(AtArg("glBindBuffer/ELEMENT", indexBufferObject))
        /\ One(At("glBufferData/ELEMENT"))
        /\ Ordered(<<AtArg("glGenBuffers", indexBufferObject),
                     AtArg("glBindBuffer/ELEMENT", indexBufferObject),
                     At("glBufferData/ELEMENT"), At("glDrawElements")>>)
        /\ One(At("ParseShader")) /\ Cardinality(At("glCompileShader")) = 2
        /\ One(At("glLinkProgram")) /\ One(AtArg("glUseProgram", shader))
        /\ Ordered(<<At("ParseShader"), At("glShaderSource"), At("glLinkProgram"),
                     At("glUseProgram"), At("glDrawElements")>>)
        /\ Before(At("glCompileShader"), At("glLinkProgram"))
        /\ \A id \in DOMAIN shaders :
            /\ One(AtArg("glShaderSource", id)) /\ One(AtArg("glCompileShader", id))
            /\ Before(AtArg("glShaderSource", id), AtArg("glCompileShader", id))
            /\ shaders[id].source = IF shaders[id].stage = "vertex"
                                    THEN source.vertexSource ELSE source.fragmentSource
        /\ buffers[buffer].size > 0 /\ buffers[indexBufferObject].size > 0
        /\ bound = [array |-> buffer, element |-> indexBufferObject]
        /\ attrib.enabled /\ attrib.buffer = buffer

\* the first draw call was just made, with a program that linked
C8_Witness ==
    /\ pc = "glfwSwapBuffers"
    /\ frames = 0
    /\ One(At("glDrawElements"))
    /\ currentProgram = shader
    /\ shader # 0

----------------------------------------------------------------------------
(* CompileShader and CreateShader *)

Report(st) == <<"Failed to compile", st, "shader!", "<info log>">>
Reported(st) ==
    \E i \in 1..(Len(out) - 3) : SubSeq(out, i, i + 3) = Report(st)
Handle(st) == IF st = "vertex" THEN vs ELSE fs

\* CompileShader found that shader id did not compile, and has returned
FailedReturned(id) ==
    /\ AtArg("glGetShaderiv/COMPILE_STATUS", id) # {}
    /\ ~shaders[id].compiled
    /\ ~(shader_id = id /\ pc \in {"compileFailed", "glDeleteShader_failed"})
AnyFailed == \E id \in DOMAIN shaders : FailedReturned(id)

LinkedPcs == {"glDeleteShader_vs", "glDeleteShader_fs", "createReturn"}
MainPcs == LoopPcs \cup {"glDeleteProgram", "glfwTerminate", "exited"}

\* C5: when a stage fails to compile, CompileShader reports the stage name and
\* the log, releases the stage object and returns 0; the failure stops nothing:
\* CreateShader attaches both handles (the zero one too), links, validates and
\* returns the program handle, which main makes current and draws with.
C5_CompileFailure ==
    /\ \A id \in DOMAIN shaders :
        FailedReturned(id) =>
            /\ Reported(shaders[id].stage)
            /\ shaders[id].deleteCalls = 1
            /\ ~IsShader(id)
            /\ Handle(shaders[id].stage) = 0
    /\ (AnyFailed /\ pc \in LinkedPcs \cup {"glUseProgram"} \cup MainPcs) =>
        /\ Cardinality(At("glAttachShader")) = 2
        /\ \E a, b \in At("glAttachShader") :
            a < b /\ trace[a].arg = vs /\ trace[b].arg = fs
        /\ AtArg("glAttachShader", 0) # {}
        /\ Ordered(<<At("glAttachShader"), AtArg("glLinkProgram", program),
                     AtArg("glValidateProgram", program)>>)
        /\ One(At("glLinkProgram")) /\ One(At("glValidateProgram"))
    /\ (AnyFailed /\ pc \in {"glUseProgram"} \cup MainPcs) =>
        shader = program /\ shader \in DOMAIN programs
    /\ (AnyFailed /\ pc \in MainPcs) => One(AtArg("glUseProgram", shader))
    /\ (AnyFailed /\ pc = "exited") =>
        Has("glDrawElements") /\ Before(At("glUseProgram"), At("glDrawElements"))

\* the vertex stage failed, the fragment stage compiled, and the first draw was made
C5_Witness ==
    /\ pc = "glfwSwapBuffers"
    /\ vs = 0 /\ fs # 0
    /\ Reported("vertex") /\ ~Reported("fragment")
    /\ AtArg("glUseProgram", program) # {}
    /\ Has("glDrawElements")

\* C10: whatever the two compile outcomes, when CreateShader returns every
\* stage object CompileShader created has been deleted exactly once: a failed
\* one inside CompileShader (the later delete in CreateShader names 0), a
\* compiled one only after link and validate.
C10_StagesDeletedOnce ==
    /\ \A id \in DOMAIN shaders : shaders[id].deleteCalls <= 1
    /\ pc \in {"createReturn", "glUseProgram"} \cup LoopPcs =>
        /\ Cardinality(DOMAIN shaders) = 2
        /\ \A id \in DOMAIN shaders :
            /\ shaders[id].deleteCalls = 1
            /\ One(AtArg("glDeleteShader", id))
            /\ shaders[id].compiled =>
                /\ Handle(shaders[id].stage) = id
                /\ Before(At("glLinkProgram") \cup At("glValidateProgram"),
                          AtArg("glDeleteShader", id))
            /\ ~shaders[id].compiled =>
                /\ Handle(shaders[id].stage) = 0
                /\ Before(AtArg("glDeleteShader", id), At("glAttachShader"))
        /\ \E a, b \in At("glDeleteShader") :
            /\ a < b /\ trace[a].arg = vs /\ trace[b].arg = fs
            /\ Before(At("glValidateProgram"), {a})

\* CreateShader is about to return after the fragment stage failed and the vertex stage compiled
C10_Witness ==
    /\ pc = "createReturn"
    /\ vs # 0 /\ fs = 0
    /\ shaders[vs].deleteCalls = 1
    /\ \E id \in DOMAIN shaders : id # vs /\ shaders[id].deleteCalls = 1

====
